---- MODULE Spec2Model ----
(***************************************************************************)
(* Multi-objective (risk, time, fuel) label-setting route search of        *)
(* routing.py, with the path reconstruction used by main.py.               *)
(*                                                                         *)
(* Numbers.  The program computes in floating point.  Here every quantity  *)
(* is a fixed-point integer: cost components, vessel parameters and the    *)
(* blend coefficients alpha and gamma are counted in units of 1/Scale, and *)
(* grid distances in units of 1/DScale (math.sqrt becomes the integer      *)
(* square root of the scaled square).  Cell attributes are integers.       *)
(***************************************************************************)
EXTENDS Integers, Sequences, FiniteSets

Scale == 1000
DScale == 100

\* the grids drawn as inputs have GridRows rows and GridCols columns
GridRows == 2
GridCols == 3
MaxLabels == 40
MaxLabelsAnyOrder == 10
MaxWater == 3

\* the significant bits of a float where the rounding of sums is modelled
MantissaBits == 8

\* pareto_optimal_path: its parameters, ROWS and COLS (len(grid) and
\* len(grid[0])), its locals, and the position pc in it
VARIABLES grid, start, goal, ship, alpha, gamma, ROWS, COLS,
          LABELS, OPEN, labels, pc, current_label, current_node,
          raw_path_indices

\* main.py: the chart, the cache of init_grid_cells and the state of one
\* call of it, and the grid the main loop holds
VARIABLES arctic_map_img, cached_grid, computed_for, call, cells, gpc,
          grid_cells

\* get_final_path_points: the two anchor points and the lists it builds
VARIABLES point_a, point_b, pruned_indices, waypoint_coords, final_points

\* one application of a function of routing.py: which one, its arguments
\* and what it returned; and, when prune_path is followed iteration by
\* iteration, its locals pruned and current_idx (loop, None before line 119)
VARIABLES fn, args, result, loop

config == <<grid, start, goal, ship, alpha, gamma, ROWS, COLS>>
routerVars == <<grid, start, goal, ship, alpha, gamma, ROWS, COLS,
                LABELS, OPEN, labels, pc, current_label, current_node,
                raw_path_indices>>
gridVars == <<arctic_map_img, cached_grid, computed_for, call, cells, gpc,
              grid_cells>>
pathVars == <<point_a, point_b, pruned_indices, waypoint_coords, final_points>>
callVars == <<fn, args, result, loop>>
vars == <<routerVars, gridVars, pathVars, callVars>>

\* None is the empty sequence, and a value that may be None is held as the
\* sequence of that one value
None == <<>>
Some(x) == <<x>>

Max(a, b) == IF a >= b THEN a ELSE b

Nodes == (0 .. ROWS - 1) \X (0 .. COLS - 1)

(***************************************************************************)
(* Data structures                                                         *)
(***************************************************************************)
\* predecessor = None
NoPred == <<>>

\* A label is addressed by its index in the sequence `labels` (its object
\* identity); predecessor is NoPred or <<node, label index>>.
Label(risk, time, fuel, predecessor) ==
    [risk |-> risk, time |-> time, fuel |-> fuel, predecessor |-> predecessor]

Ship(base_speed, base_fuel_rate, durability) ==
    [base_speed |-> base_speed, base_fuel_rate |-> base_fuel_rate,
     durability |-> durability]

GridCell(risk, time, fuel, weather, is_clickable) ==
    [risk |-> risk, time |-> time, fuel |-> fuel, weather |-> weather,
     is_clickable |-> is_clickable]

\* (variant: the last clause, strictly better in one component, is left out)
dominates_or_equal(a, b) ==
    /\ a.risk <= b.risk
    /\ a.time <= b.time
    /\ a.fuel <= b.fuel

dominates(a, b) ==
    /\ a.risk <= b.risk
    /\ a.time <= b.time
    /\ a.fuel <= b.fuel
    /\ (a.risk < b.risk \/ a.time < b.time \/ a.fuel < b.fuel)

(***************************************************************************)
(* Helper functions                                                        *)
(***************************************************************************)
directions ==
    << <<-1, 0>>, <<1, 0>>, <<0, -1>>, <<0, 1>>,
       <<-1, -1>>, <<-1, 1>>, <<1, -1>>, <<1, 1>> >>

InBounds(n) == n[1] >= 0 /\ n[1] < ROWS /\ n[2] >= 0 /\ n[2] < COLS

\* the in-bounds neighbours of node, in the order of `directions`
neighbors(node) ==
    LET moved == [i \in 1 .. Len(directions) |->
                    <<node[1] + directions[i][1], node[2] + directions[i][2]>>]
    IN  SelectSeq(moved, InBounds)

SqDist(a, b) == (a[1] - b[1]) * (a[1] - b[1]) + (a[2] - b[2]) * (a[2] - b[2])

\* math.sqrt: floor(sqrt(d2)) in units of 1/DScale, tabulated once for every
\* squared distance two cells of a grid of the model, or of the row and the
\* column next to it, can have
SqrtTable ==
    [d2 \in 0 .. ((GridRows + 1) * (GridRows + 1) + (GridCols + 1) * (GridCols + 1)) |->
        CHOOSE k \in 0 .. (GridRows + GridCols + 2) * DScale :
            k * k <= d2 * DScale * DScale /\ (k + 1) * (k + 1) > d2 * DScale * DScale]

distance(a, b) == SqrtTable[SqDist(a, b)]

(***************************************************************************)
(* Core algorithm: the quantities computed before the main loop            *)
(***************************************************************************)
\* 0.1, the floor of max(0.1, .)
MinParam == 100

\* max(0.1, ship.durability), the divisor behind inv_durability
durability_clamped == Max(MinParam, ship.durability)

\* max(0.1, ship.base_speed), the divisor behind inv_speed
speed_clamped == Max(MinParam, ship.base_speed)

base_fuel == ship.base_fuel_rate

\* distance(node, goal) * inv_speed
h_time(node) == (distance(node, goal) * Scale * Scale) \div (speed_clamped * DScale)

effective_risk(cell) ==
    Max(0, cell.risk * Scale + (alpha * cell.weather * Scale) \div durability_clamped)

fuel_cost(cell, d) ==
    (base_fuel * cell.fuel * (durability_clamped + gamma * cell.weather) * d)
        \div (durability_clamped * DScale)

time_cost(cell, d) == (cell.time * d * Scale * Scale) \div (speed_clamped * DScale)

start_label == Label(0, 0, 0, NoPred)

\* The part of the program state the search works on, as one value.  OPEN is
\* the list heapq keeps as a binary heap; labels holds every Label object
\* that was admitted, in order of creation.
State == [LABELS |-> LABELS, OPEN |-> OPEN, labels |-> labels]

\* tuple comparison of two (risk, time, fuel) triples
LexLess(p, q) ==
    \/ p[1] < q[1]
    \/ p[1] = q[1] /\ p[2] < q[2]
    \/ p[1] = q[1] /\ p[2] = q[2] /\ p[3] < q[3]

\* Label.__lt__
label_lt(a, b) == LexLess(<<a.risk, a.time, a.fuel>>, <<b.risk, b.time, b.fuel>>)

\* comparison of two heap entries (priority, label, node): the priorities
\* decide, then Label.__lt__; the node is never reached, because two entries
\* never hold the same label object
entry_lt(ls, e1, e2) ==
    \/ LexLess(e1.priority, e2.priority)
    \/ e1.priority = e2.priority /\ label_lt(ls[e1.label], ls[e2.label])

(***************************************************************************)
(* heapq, as the program uses it through heappush and heappop.  Positions  *)
(* are 0-based as in heapq; heap[pos + 1] is the item at position pos.     *)
(***************************************************************************)
RECURSIVE siftdown(_, _, _, _, _)
siftdown(ls, heap, startpos, pos, newitem) ==
    IF pos > startpos /\ entry_lt(ls, newitem, heap[((pos - 1) \div 2) + 1])
    THEN siftdown(ls, [heap EXCEPT ![pos + 1] = heap[((pos - 1) \div 2) + 1]],
                  startpos, (pos - 1) \div 2, newitem)
    ELSE [heap EXCEPT ![pos + 1] = newitem]

RECURSIVE siftup(_, _, _, _)
siftup(ls, heap, pos, newitem) ==
    LET childpos == 2 * pos + 1
        rightpos == childpos + 1
        smaller == IF rightpos < Len(heap)
                      /\ ~entry_lt(ls, heap[childpos + 1], heap[rightpos + 1])
                   THEN rightpos ELSE childpos
    IN  IF childpos < Len(heap)
        THEN siftup(ls, [heap EXCEPT ![pos + 1] = heap[smaller + 1]], smaller, newitem)
        ELSE siftdown(ls, [heap EXCEPT ![pos + 1] = newitem], 0, pos, newitem)

heappush(ls, heap, item) == siftdown(ls, Append(heap, item), 0, Len(heap), item)

\* the item returned and the heap left, for a non-empty heap
heappop(ls, heap) ==
    LET lastelt == heap[Len(heap)]
        rest == SubSeq(heap, 1, Len(heap) - 1)
    IN  IF rest = <<>> THEN [item |-> lastelt, heap |-> rest]
        ELSE [item |-> heap[1], heap |-> siftup(ls, rest, 0, lastelt)]

(***************************************************************************)
(* Core algorithm: the main loop                                           *)
(***************************************************************************)
\* the state after lines 165-187
InitialState ==
    [LABELS |-> [n \in Nodes |-> IF n = start THEN <<1>> ELSE <<>>],
     OPEN   |-> heappush(<<start_label>>, <<>>,
                         [priority |-> <<0, h_time(start), 0>>, label |-> 1,
                          node |-> start]),
     labels |-> <<start_label>>]

\* lines 195-198: the popped label is dominated by a label at the goal
goal_pruned(st, l) ==
    \E i \in 1 .. Len(st.LABELS[goal]) :
        dominates(st.labels[st.LABELS[goal][i]], st.labels[l])

\* (variant: the cell charged is the cell left, not the cell entered)
new_label_cell_left(st, l, node, nb) ==
    LET cell == grid[node]
        d == distance(node, nb)
        cur == st.labels[l]
    IN  Label(cur.risk + effective_risk(cell),
              cur.time + time_cost(cell, d),
              cur.fuel + fuel_cost(cell, d),
              <<node, l>>)

\* lines 211-232
new_label(st, l, node, nb) ==
    LET cell == grid[nb]
        d == distance(node, nb)
        cur == st.labels[l]
    IN  Label(cur.risk + effective_risk(cell),
              cur.time + time_cost(cell, d),
              cur.fuel + fuel_cost(cell, d),
              <<node, l>>)

\* lines 238-243
is_dominated(st, nb, nl) ==
    \E i \in 1 .. Len(st.LABELS[nb]) : dominates(st.labels[st.LABELS[nb][i]], nl)

\* (variant: the labels the new one dominates are left in place)
kept_labels_all(st, nb, nl) == st.LABELS[nb]

\* lines 249-252: the labels of nb that nl does not dominate
kept_labels(st, nb, nl) ==
    SelectSeq(st.LABELS[nb], LAMBDA l : ~dominates(nl, st.labels[l]))

\* lines 249-260
admit(st, nb, nl) ==
    LET id == Len(st.labels) + 1
        ls == Append(st.labels, nl)
    IN  [labels |-> ls,
         LABELS |-> [st.LABELS EXCEPT ![nb] = Append(kept_labels(st, nb, nl), id)],
         OPEN   |-> heappush(ls, st.OPEN,
                             [priority |-> <<nl.risk, nl.time + h_time(nb), nl.fuel>>,
                              label |-> id, node |-> nb])]

\* (variant: the navigation constraint of lines 208-209 is left out)
expand_over_land(st, l, node, nb) ==
    LET nl == new_label(st, l, node, nb)
    IN  IF is_dominated(st, nb, nl) THEN st ELSE admit(st, nb, nl)

\* one pass of the for loop body, lines 204-260
expand(st, l, node, nb) ==
    IF ~grid[nb].is_clickable THEN st
    ELSE LET nl == new_label(st, l, node, nb)
         IN  IF is_dominated(st, nb, nl) THEN st ELSE admit(st, nb, nl)

\* the for loop of line 203 over the first k neighbours of node
RECURSIVE expand_first(_, _, _, _)
expand_first(st, l, node, k) ==
    IF k = 0 THEN st
    ELSE expand(expand_first(st, l, node, k - 1), l, node, neighbors(node)[k])

\* (variant: the test of lines 200-201 is left out, a label at the goal is
\* expanded like any other)
iterate_through_goal(st, p) ==
    LET st1 == [st EXCEPT !.OPEN = p.heap]
    IN  IF goal_pruned(st1, p.item.label) THEN st1
        ELSE expand_first(st1, p.item.label, p.item.node, Len(neighbors(p.item.node)))

\* One pass of the while loop, lines 191-260, after the pop p = [item, heap].
iterate(st, p) ==
    LET st1 == [st EXCEPT !.OPEN = p.heap]
    IN  IF goal_pruned(st1, p.item.label) \/ p.item.node = goal THEN st1
        ELSE expand_first(st1, p.item.label, p.item.node, Len(neighbors(p.item.node)))

(***************************************************************************)
(* Path reconstruction                                                     *)
(***************************************************************************)
reversed(s) == [i \in 1 .. Len(s) |-> s[Len(s) + 1 - i]]

\* the while loop of reconstruct_path: the predecessor nodes, label first
RECURSIVE walk_back(_, _)
walk_back(ls, l) ==
    IF ls[l].predecessor = NoPred THEN <<>>
    ELSE <<ls[l].predecessor[1]>> \o walk_back(ls, ls[l].predecessor[2])

\* (variant: the list is returned without being reversed)
reconstruct_path_unreversed(ls, l) == walk_back(ls, l)

reconstruct_path(ls, l) == reversed(walk_back(ls, l))

(***************************************************************************)
(* Inputs                                                                  *)
(***************************************************************************)
\* Cell attributes within the data model (risk >= 0, time >= 1, fuel >= 1,
\* weather >= 0).  "uniform" gives every cell the attributes 1, 1, 1, 1;
\* "varied" alternates calm, slow cells with risky, fast ones, so that
\* routes trade risk against time; "calm" has no risk and no weather, and
\* a time multiplier of 1, 2 or 3 by position, so that the order of
\* processing is decided by time alone and is misled by slow cells.
CostPatterns == {"uniform", "varied", "calm"}

CellCost(p, n) ==
    IF p = "uniform" THEN GridCell(1, 1, 1, 1, TRUE)
    ELSE IF p = "calm" THEN GridCell(0, 1 + ((n[2] + 2 * n[1]) % 3), 1, 0, TRUE)
    ELSE IF (n[1] + n[2]) % 2 = 0 THEN GridCell(0, 3, 1, 0, TRUE)
    ELSE GridCell(2, 1, 2, 2, TRUE)

\* the cells of a grid of GridRows rows and GridCols columns
GridNodes == (0 .. GridRows - 1) \X (0 .. GridCols - 1)

\* no, one or two cells of land
LandSets == {{}} \cup {{a, b} : a \in GridNodes, b \in GridNodes}

Grids ==
    {[n \in GridNodes |-> [CellCost(p, n) EXCEPT !.is_clickable = (n \notin land)]] :
        p \in CostPatterns, land \in LandSets}

\* Vessel profiles as load_ships_data can build them: a regular one, one
\* whose three columns are missing or hold 0 (clean_val('0') = 0.0), one
\* with a negative fuel rate ("-1.0" parses to -1.0).
Ships == {Ship(Scale, Scale, Scale), Ship(0, 0, 0), Ship(Scale, 0 - Scale, Scale)}

\* a corner cell and a cell in the middle of an edge
StartNodes == {<<0, 0>>, <<0, 1>>}

\* alpha = 0.5, gamma = 0.3
DefaultAlpha == 500
DefaultGamma == 300

(***************************************************************************)
(* The search as a state machine: one step per pass of the while loop      *)
(***************************************************************************)
\* nothing of main.py's grid set-up takes part
GridIdle ==
    /\ arctic_map_img = None
    /\ cached_grid = None
    /\ computed_for = None
    /\ call = None
    /\ cells = None
    /\ gpc = "idle"
    /\ grid_cells = None

\* get_final_path_points has not been called
PathIdle ==
    /\ point_a = None
    /\ point_b = None
    /\ pruned_indices = <<>>
    /\ waypoint_coords = <<>>
    /\ final_points = None

\* no function is applied on its own
LoopIdle == loop = None

CallIdle == fn = "none" /\ args = <<>> /\ result = None /\ LoopIdle

\* lines 161-187 for the arguments given: the state on entering the main loop
Entry ==
    /\ alpha = DefaultAlpha
    /\ gamma = DefaultGamma
    /\ LABELS = InitialState.LABELS
    /\ OPEN = InitialState.OPEN
    /\ labels = InitialState.labels
    /\ pc = "loop"
    /\ current_label = 1
    /\ current_node = start
    /\ raw_path_indices = <<>>

Init ==
    /\ grid \in Grids
    /\ ROWS = GridRows
    /\ COLS = GridCols
    /\ start \in StartNodes
    /\ goal \in GridNodes
    /\ ship \in Ships
    /\ Entry
    /\ GridIdle /\ PathIdle /\ CallIdle

\* the pass of the while loop that follows the pop p; the model holds at
\* most cap labels
Pass(p, cap) ==
    /\ pc = "loop"
    /\ Len(iterate(State, p).labels) <= cap
    /\ LABELS' = iterate(State, p).LABELS
    /\ OPEN' = iterate(State, p).OPEN
    /\ labels' = iterate(State, p).labels
    /\ current_label' = p.item.label
    /\ current_node' = p.item.node
    /\ UNCHANGED <<config, pc, raw_path_indices, gridVars, pathVars, callVars>>

\* lines 195-198: the popped label is skipped
PopDominated(p, cap) == goal_pruned(State, p.item.label) /\ Pass(p, cap)

\* lines 200-201: a label at the goal is not expanded
PopGoal(p, cap) ==
    ~goal_pruned(State, p.item.label) /\ p.item.node = goal /\ Pass(p, cap)

\* lines 203-260: the label is expanded to every neighbour
PopExpand(p, cap) ==
    ~goal_pruned(State, p.item.label) /\ p.item.node # goal /\ Pass(p, cap)

\* A pass that needs more than cap labels is cut off here, and the run has
\* not returned.
Overflow(p, cap) ==
    /\ pc = "loop"
    /\ Len(iterate(State, p).labels) > cap
    /\ pc' = "overflow"
    /\ UNCHANGED <<config, LABELS, OPEN, labels, current_label, current_node,
                   raw_path_indices, gridVars, pathVars, callVars>>

\* line 190 with OPEN empty, then line 262
Return ==
    /\ pc = "loop"
    /\ OPEN = <<>>
    /\ pc' = "done"
    /\ UNCHANGED <<config, LABELS, OPEN, labels, current_label, current_node,
                   raw_path_indices, gridVars, pathVars, callVars>>

\* main.py lines 284-285, for one of the returned labels
Reconstruct ==
    /\ pc = "done"
    /\ \E i \in 1 .. Len(LABELS[goal]) :
          raw_path_indices' = Append(reconstruct_path(labels, LABELS[goal][i]), goal)
    /\ pc' = "reconstructed"
    /\ UNCHANGED <<config, LABELS, OPEN, labels, current_label, current_node,
                   gridVars, pathVars, callVars>>

HeapPopDominated == OPEN # <<>> /\ PopDominated(heappop(labels, OPEN), MaxLabels)
HeapPopGoal == OPEN # <<>> /\ PopGoal(heappop(labels, OPEN), MaxLabels)
HeapPopExpand == OPEN # <<>> /\ PopExpand(heappop(labels, OPEN), MaxLabels)
HeapOverflow == OPEN # <<>> /\ Overflow(heappop(labels, OPEN), MaxLabels)

Next ==
    \/ HeapPopDominated
    \/ HeapPopGoal
    \/ HeapPopExpand
    \/ HeapOverflow
    \/ Return
    \/ Reconstruct

Spec == Init /\ [][Next]_vars

(***************************************************************************)
(* Properties                                                              *)
(***************************************************************************)
cost(l) == <<l.risk, l.time, l.fuel>>

\* the labels of node n's frontier in state st
frontier(st, n) == {st.labels[st.LABELS[n][i]] : i \in 1 .. Len(st.LABELS[n])}

\* what the function returns, as a set of cost vectors
GoalCosts(st) == {cost(l) : l \in frontier(st, goal)}

\* The states the program passes through inside the next pass of the while
\* loop: after the pop, and after each neighbour of the for loop.
PassStates ==
    IF pc # "loop" \/ OPEN = <<>> THEN {}
    ELSE LET p == heappop(labels, OPEN)
             st1 == [State EXCEPT !.OPEN = p.heap]
         IN  IF goal_pruned(st1, p.item.label) \/ p.item.node = goal THEN {st1}
             ELSE {expand_first(st1, p.item.label, p.item.node, k) :
                      k \in 0 .. Len(neighbors(p.item.node))}

ReachedStates == {State} \cup PassStates

NonDominated(st) ==
    \A n \in Nodes : \A a, b \in frontier(st, n) : ~dominates(a, b)

\* some label that was admitted is in no frontier any more
SomeEvicted ==
    \E l \in 1 .. Len(labels) : \A n \in Nodes : \A i \in 1 .. Len(LABELS[n]) :
        LABELS[n][i] # l

\* C1: in every state reached while pareto_optimal_path runs, and in the
\* result, no label of a node's frontier dominates another label of it.
C1_FrontierNonDominated == \A st \in ReachedStates : NonDominated(st)

\* a run has returned, some frontier holds two labels of different cost and
\* some label was evicted on the way
C1_Witness ==
    /\ pc = "done"
    /\ SomeEvicted
    /\ \E n \in Nodes : \E a, b \in frontier(State, n) : cost(a) # cost(b)

\* The walks from the start that step between neighbouring cells and enter
\* only navigable cells, of at most k steps, each as <<node, cost vector>>
\* with the cost the edge formulas give it.
RECURSIVE walks(_)
walks(k) ==
    IF k = 0 THEN {<<start, <<0, 0, 0>>>>}
    ELSE LET prev == walks(k - 1)
         IN  prev \cup
             {<<nb, <<w[2][1] + effective_risk(grid[nb]),
                      w[2][2] + time_cost(grid[nb], distance(w[1], nb)),
                      w[2][3] + fuel_cost(grid[nb], distance(w[1], nb))>>>> :
                 <<w, nb>> \in {x \in prev \X Nodes :
                                   /\ SqDist(x[1][1], x[2]) \in {1, 2}
                                   /\ grid[x[2]].is_clickable}}

\* dominance between two cost vectors
vec_dominates(a, b) ==
    /\ a[1] <= b[1] /\ a[2] <= b[2] /\ a[3] <= b[3]
    /\ (a[1] < b[1] \/ a[2] < b[2] \/ a[3] < b[3])

ParetoMinimal(S) == {c \in S : \A d \in S : ~vec_dominates(d, c)}

\* cost vectors of the walks to the goal of at most as many steps as the
\* grid has cells (a walk that is longer repeats a cell)
WalkGoalCosts == {w[2] : w \in {x \in walks(Cardinality(Nodes)) : x[1] = goal}}

\* C2: the cost vectors returned are exactly the Pareto-minimal cost
\* vectors of the walks from the start to the goal.
C2_ReturnsParetoSet ==
    pc = "done" => GoalCosts(State) = ParetoMinimal(WalkGoalCosts)

\* the same for a vessel whose fuel rate is not negative
ParetoSetUnlessNegativeFuel ==
    pc = "done" /\ ship.base_fuel_rate >= 0
        => GoalCosts(State) = ParetoMinimal(WalkGoalCosts)

\* the cells that a sequence of at most k steps between neighbouring cells
\* reaches from the start, every cell entered being navigable
RECURSIVE reached(_)
reached(k) ==
    IF k = 0 THEN {start}
    ELSE LET prev == reached(k - 1)
         IN  prev \cup {n \in Nodes : /\ grid[n].is_clickable
                                       /\ \E m \in prev : SqDist(m, n) \in {1, 2}}

RouteExists == goal \in reached(Cardinality(Nodes))

\* C3: for start # goal the function returns an empty list exactly when no
\* sequence of neighbouring navigable cells leads from the start to the goal.
C3_EmptyIffNoRoute ==
    pc = "done" /\ start # goal => (LABELS[goal] = <<>> <=> ~RouteExists)

\* The function has returned an empty list for a navigable goal that land
\* cuts off from the start, after expanding labels on the start's side.
C3_Witness ==
    /\ pc = "done"
    /\ start # goal
    /\ grid[goal].is_clickable
    /\ grid[start].is_clickable
    /\ LABELS[goal] = <<>>
    /\ Len(labels) >= 2

\* C5: each of base_speed, base_fuel_rate and durability that is <= 0 is
\* replaced by the minimum 0.1 before an edge increment is computed from it.
C5_VesselParametersClamped ==
    Len(labels) > 1 =>
        /\ speed_clamped >= MinParam
        /\ durability_clamped >= MinParam
        /\ base_fuel >= MinParam

\* C6: no frontier holds two labels of the same cost vector.
C6_NoDuplicateCostVectors ==
    \A st \in ReachedStates : \A n \in Nodes :
        \A i, j \in 1 .. Len(st.LABELS[n]) :
            i # j => cost(st.labels[st.LABELS[n][i]]) # cost(st.labels[st.LABELS[n][j]])

\* C7: the cost vector of every label is, in each component, at least that
\* of its predecessor.
C7_CostsNonDecreasing ==
    \A l \in 1 .. Len(labels) :
        labels[l].predecessor # NoPred =>
            /\ labels[l].risk >= labels[labels[l].predecessor[2]].risk
            /\ labels[l].time >= labels[labels[l].predecessor[2]].time
            /\ labels[l].fuel >= labels[labels[l].predecessor[2]].fuel

\* C4: the main loop empties OPEN and the function returns, and it returns
\* only when OPEN is empty.  On the bounded model: no run is cut off for
\* needing more labels than the model holds (every other state has a next
\* pass or is the return), and OPEN is empty once the function has returned.
C4_LoopRunsToReturn ==
    /\ pc # "overflow"
    /\ pc \in {"done", "reconstructed"} => OPEN = <<>>

\* with a vessel whose fuel rate is not negative no run is cut off
ReturnsUnlessNegativeFuel == ship.base_fuel_rate >= 0 => pc # "overflow"

\* C9: the path reconstruct_path gives for a returned label, with the goal
\* appended, begins at the start node and ends at the goal node.
C9_PathFromStartToGoal ==
    pc = "reconstructed" =>
        /\ raw_path_indices[1] = start
        /\ raw_path_indices[Len(raw_path_indices)] = goal

\* a path of three cells or more has been reconstructed
C9_Witness == pc = "reconstructed" /\ Len(raw_path_indices) >= 3

\* the labels of the goal's frontier, as label indices
GoalLabels == {LABELS[goal][i] : i \in 1 .. Len(LABELS[goal])}

\* no label was made by expanding a label at the goal, and the function
\* returns with OPEN empty only
NeverExpandedAtGoal ==
    /\ \A l \in 1 .. Len(labels) :
          labels[l].predecessor # NoPred => labels[l].predecessor[1] # goal
    /\ pc \in {"done", "reconstructed"} => OPEN = <<>>

\* a label of the goal's frontier stays in it, or a label of the frontier
\* dominates it from then on
GoalLabelKeptOrDominated ==
    \A l \in GoalLabels :
        \/ l \in GoalLabels'
        \/ \E m \in GoalLabels' : dominates(labels'[m], labels'[l])

\* C10: a label popped at the goal is never expanded and leaves the goal's
\* frontier only for a label that dominates it; the loop goes on after the
\* first label has reached the goal, until OPEN is empty.
C10_GoalLabelsNotExpanded == []NeverExpandedAtGoal /\ [][GoalLabelKeptOrDominated]_vars

\* A label of the goal's frontier has been popped (it is no longer queued),
\* and a later pass has expanded a label at another node and admitted a
\* label from it.
C10_Witness ==
    /\ pc = "loop"
    /\ current_node # goal
    /\ \E g \in GoalLabels : g # 1 /\ \A i \in 1 .. Len(OPEN) : OPEN[i].label # g
    /\ \E l \in 1 .. Len(labels) :
          labels[l].predecessor # NoPred /\ labels[l].predecessor[2] = current_label

(***************************************************************************)
(* The same search with the pending labels taken in any order              *)
(***************************************************************************)
\* entry i taken from the list, whatever its priority
pop_at(heap, i) ==
    [item |-> heap[i],
     heap |-> SubSeq(heap, 1, i - 1) \o SubSeq(heap, i + 1, Len(heap))]

AnyPopDominated ==
    \E i \in 1 .. Len(OPEN) : PopDominated(pop_at(OPEN, i), MaxLabelsAnyOrder)
AnyPopGoal == \E i \in 1 .. Len(OPEN) : PopGoal(pop_at(OPEN, i), MaxLabelsAnyOrder)
AnyPopExpand == \E i \in 1 .. Len(OPEN) : PopExpand(pop_at(OPEN, i), MaxLabelsAnyOrder)
AnyOverflow == \E i \in 1 .. Len(OPEN) : Overflow(pop_at(OPEN, i), MaxLabelsAnyOrder)

\* grids of at most MaxWater navigable cells
SmallGrids ==
    {[n \in GridNodes |-> [CellCost(p, n) EXCEPT !.is_clickable = (n \in water)]] :
        p \in CostPatterns,
        water \in {S \in SUBSET GridNodes : Cardinality(S) <= MaxWater}}

InitAnyOrder ==
    /\ grid \in SmallGrids
    /\ ROWS = GridRows
    /\ COLS = GridCols
    /\ start \in StartNodes
    /\ goal \in GridNodes
    /\ ship \in Ships
    /\ Entry
    /\ GridIdle /\ PathIdle /\ CallIdle

NextAnyOrder ==
    \/ AnyPopDominated
    \/ AnyPopGoal
    \/ AnyPopExpand
    \/ AnyOverflow
    \/ Return
    \/ Reconstruct

SpecAnyOrder == InitAnyOrder /\ [][NextAnyOrder]_vars

\* the whole run of the function in the order heapq gives, from state st,
\* cut off when more than MaxLabels labels exist
RECURSIVE heap_run(_)
heap_run(st) ==
    IF st.OPEN = <<>> \/ Len(st.labels) > MaxLabels THEN st
    ELSE heap_run(iterate(st, heappop(st.labels, st.OPEN)))

\* C8: whatever the order in which the pending labels are taken, the cost
\* vectors returned are those returned with the priority order.
C8_OrderDoesNotMatter ==
    pc = "done" =>
        LET r == heap_run(InitialState)
        IN  /\ r.OPEN = <<>>
            /\ Len(r.labels) <= MaxLabels
            /\ GoalCosts(State) = GoalCosts(r)

\* the same for a vessel whose fuel rate is not negative
OrderDoesNotMatterUnlessNegativeFuel ==
    ship.base_fuel_rate >= 0 => C8_OrderDoesNotMatter

(***************************************************************************)
(* Functions of routing.py applied on their own to arguments drawn from    *)
(* bounded sets                                                            *)
(***************************************************************************)
\* pareto_optimal_path is not running
RouterIdle ==
    /\ grid = <<>>
    /\ ROWS = 0
    /\ COLS = 0
    /\ start = None
    /\ goal = None
    /\ ship = None
    /\ alpha = DefaultAlpha
    /\ gamma = DefaultGamma
    /\ LABELS = <<>>
    /\ OPEN = <<>>
    /\ labels = <<>>
    /\ pc = "idle"
    /\ current_label = 0
    /\ current_node = None
    /\ raw_path_indices = <<>>

\* cost components 0 .. MaxCost
MaxCost == 2

CostVectors == (0 .. MaxCost) \X (0 .. MaxCost) \X (0 .. MaxCost)

\* three labels a, b, c
InitDominates ==
    /\ fn = "dominates"
    /\ args \in {<<Label(a[1], a[2], a[3], NoPred), Label(b[1], b[2], b[3], NoPred),
                   Label(c[1], c[2], c[3], NoPred)>> :
                    a \in CostVectors, b \in CostVectors, c \in CostVectors}
    /\ result = None
    /\ LoopIdle
    /\ RouterIdle /\ GridIdle /\ PathIdle

\* dominates applied to the pairs of a, b, c
ApplyDominates ==
    /\ fn = "dominates"
    /\ result = None
    /\ result' = Some([aa |-> dominates(args[1], args[1]),
                       ab |-> dominates(args[1], args[2]),
                       ba |-> dominates(args[2], args[1]),
                       bc |-> dominates(args[2], args[3]),
                       ac |-> dominates(args[1], args[3])])
    /\ UNCHANGED <<fn, args, loop, routerVars, gridVars, pathVars>>

NextDominates == ApplyDominates

SpecDominates == InitDominates /\ [][NextDominates]_vars

\* C11: dominates is a strict partial order: dominates(a, a) is false,
\* dominates(a, b) and dominates(b, c) imply dominates(a, c), and
\* dominates(a, b) implies that dominates(b, a) is false.
C11_DominatesStrictPartialOrder ==
    fn = "dominates" /\ result # None =>
        /\ ~result[1].aa
        /\ (result[1].ab /\ result[1].bc => result[1].ac)
        /\ (result[1].ab => ~result[1].ba)

\* a dominates b at equal risk, b dominates c at equal time, and a dominates c
C11_Witness ==
    /\ fn = "dominates" /\ result # None
    /\ result[1].ab /\ result[1].bc /\ result[1].ac
    /\ args[1].risk = args[2].risk /\ args[2].time = args[3].time

(***************************************************************************)
(* main.py: the chart, analyze_cell_from_image and init_grid_cells with    *)
(* its cache.  The chart is GridCols blocks wide and GridRows blocks high, *)
(* each block GRID_SPACING pixels square and of one colour;                *)
(* arctic_map_img is None when the chart could not be loaded, and else     *)
(* Some(the set of the blue blocks, as <<row, column>>).                   *)
(* Cell attributes are whole numbers (floor of the program's value).       *)
(***************************************************************************)
GRID_SPACING == 25

\* the size of the chart in pixels (the module's width and height)
width == GridCols * GRID_SPACING
height == GridRows * GRID_SPACING

\* the colour test b > r + 15 and b > g + 15 and b > 100 on the pixel (x, y)
blue_pixel(x, y) == <<y \div GRID_SPACING, x \div GRID_SPACING>> \in arctic_map_img[1]

\* each random.uniform draw of one call, and the brightness term with it, is
\* one whole number u of Noise
Noise == {0, 1}

\* the five by five sample positions (i, j) of a cell
SamplePositions == (0 .. 4) \X (0 .. 4)

\* (variant: a cell is clickable when most of its samples are water)
is_clickable_majority(blue_pixels, total_samples) == 2 * blue_pixels > total_samples

\* line 162
is_clickable(blue_pixels, total_samples) == blue_pixels >= 1

\* unreadable holds the sample positions whose pixel read raises, which the
\* except clause of lines 133-134 skips
analyze_cell_from_image(cell_x, cell_y, grid_spacing, u, unreadable) ==
    LET px(i) == cell_x + (i + 1) * (grid_spacing \div 6)
        py(j) == cell_y + (j + 1) * (grid_spacing \div 6)
        sampled == {ij \in SamplePositions \ unreadable :
                       /\ 0 <= px(ij[1]) /\ px(ij[1]) < width
                       /\ 0 <= py(ij[2]) /\ py(ij[2]) < height}
        total_samples == Cardinality(sampled)
        blue_pixels == Cardinality({ij \in sampled : blue_pixel(px(ij[1]), py(ij[2]))})
        ice == total_samples - blue_pixels
    IN  IF arctic_map_img = None THEN GridCell(1, 1, 1, 1, FALSE)
        ELSE IF total_samples = 0 THEN GridCell(5, 3, 2, 1, FALSE)
        ELSE GridCell((5 * ice) \div total_samples + u,
                      1 + (5 * ice) \div total_samples + u,
                      1 + (3 * ice) \div total_samples + u,
                      1 + (2 * ice) \div total_samples + u,
                      is_clickable(blue_pixels, total_samples))

\* the arguments of one call of init_grid_cells
CallArgs(w, h, s) == [width |-> w, height |-> h, grid_spacing |-> s]

grid_cols(c) == (c.width + c.grid_spacing - 1) \div c.grid_spacing
grid_rows(c) == (c.height + c.grid_spacing - 1) \div c.grid_spacing

\* 1. Initial analysis
initial_analysis(c, u) ==
    [n \in (0 .. grid_rows(c) - 1) \X (0 .. grid_cols(c) - 1) |->
        analyze_cell_from_image(n[2] * c.grid_spacing, n[1] * c.grid_spacing,
                                c.grid_spacing, u, {})]

clickable(g) == {n \in DOMAIN g : g[n].is_clickable}

\* 2. the first clickable cell from the top left, row by row; None without one
find_start_node(g) ==
    IF clickable(g) = {} THEN None
    ELSE Some(CHOOSE n \in clickable(g) :
                \A m \in clickable(g) : n[1] < m[1] \/ (n[1] = m[1] /\ n[2] <= m[2]))

\* (variant: the search also steps to the four diagonal neighbours)
eight_directions ==
    << <<-1, 0>>, <<1, 0>>, <<0, -1>>, <<0, 1>>,
       <<-1, -1>>, <<-1, 1>>, <<1, -1>>, <<1, 1>> >>

\* Up, Down, Left, Right
four_directions == << <<-1, 0>>, <<1, 0>>, <<0, -1>>, <<0, 1>> >>

\* the for loop of one popped cell: the neighbours it adds, in order
RECURSIVE bfs_visit(_, _, _, _)
bfs_visit(g, node, reachable, k) ==
    IF k = 0 THEN <<>>
    ELSE LET before == bfs_visit(g, node, reachable, k - 1)
             n == <<node[1] + four_directions[k][1], node[2] + four_directions[k][2]>>
         IN  IF /\ n \in DOMAIN g
                /\ g[n].is_clickable
                /\ n \notin reachable
                /\ \A i \in 1 .. Len(before) : before[i] # n
             THEN Append(before, n) ELSE before

\* 3. BFS Reachability Check: the while loop
RECURSIVE bfs(_, _, _)
bfs(g, queue, reachable) ==
    IF queue = <<>> THEN reachable
    ELSE LET added == bfs_visit(g, Head(queue), reachable, Len(four_directions))
         IN  bfs(g, Tail(queue) \o added,
                 reachable \cup {added[i] : i \in 1 .. Len(added)})

\* (variant: no cell is cleared)
filter_none(g, reachable) == g

\* (variant: a cell that is not reached is replaced by the cell
\* analyze_cell_from_image gives where nothing could be sampled)
filter_replace_cells(g, reachable) ==
    [n \in DOMAIN g |-> IF n \notin reachable THEN GridCell(5, 3, 2, 1, FALSE) ELSE g[n]]

\* 4. Filter non-reachable cells
filter_non_reachable(g, reachable) ==
    [n \in DOMAIN g |->
        IF n \notin reachable THEN [g[n] EXCEPT !.is_clickable = FALSE] ELSE g[n]]

\* the arguments init_grid_cells is called with
Calls ==
    {CallArgs(w, height, s) : w \in {width, width - GRID_SPACING},
                              s \in {GRID_SPACING, 2 * GRID_SPACING}}

\* lines 172-173: the cache holds a grid, which is returned
CallCached(c) ==
    /\ gpc = "idle"
    /\ cached_grid # None
    /\ call' = c
    /\ grid_cells' = cached_grid
    /\ UNCHANGED <<arctic_map_img, cached_grid, computed_for, cells, gpc,
                   routerVars, pathVars, callVars>>

\* lines 175-194: the cache is empty, the grid is built and classified
Classify(c, u) ==
    /\ gpc = "idle"
    /\ cached_grid = None
    /\ call' = c
    /\ cells' = Some(initial_analysis(c, u))
    /\ gpc' = "classified"
    /\ UNCHANGED <<arctic_map_img, cached_grid, computed_for, grid_cells,
                   routerVars, pathVars, callVars>>

\* lines 196-208: no cell is clickable; the grid is cached and returned
ReturnNoStart ==
    /\ gpc = "classified"
    /\ find_start_node(cells[1]) = None
    /\ cached_grid' = cells
    /\ computed_for' = call
    /\ grid_cells' = cells
    /\ gpc' = "idle"
    /\ UNCHANGED <<arctic_map_img, call, cells, routerVars, pathVars, callVars>>

\* lines 196-232: the cells the search does not reach are cleared; the grid
\* is cached and returned
FilterAndReturn ==
    /\ gpc = "classified"
    /\ find_start_node(cells[1]) # None
    /\ LET start_node == find_start_node(cells[1])[1]
           reachable == bfs(cells[1], <<start_node>>, {start_node})
           filtered == Some(filter_non_reachable(cells[1], reachable))
       IN  /\ cells' = filtered
           /\ cached_grid' = filtered
           /\ grid_cells' = filtered
    /\ computed_for' = call
    /\ gpc' = "idle"
    /\ UNCHANGED <<arctic_map_img, call, routerVars, pathVars, callVars>>

\* the R key: the main loop forgets its grid, the cache is left as it is
Reset ==
    /\ gpc = "idle"
    /\ grid_cells # None
    /\ grid_cells' = None
    /\ UNCHANGED <<arctic_map_img, cached_grid, computed_for, call, cells, gpc,
                   routerVars, pathVars, callVars>>

InitGrid ==
    /\ arctic_map_img \in {Some(S) : S \in SUBSET GridNodes}
    /\ cached_grid = None
    /\ computed_for = None
    /\ call = None
    /\ cells = None
    /\ gpc = "idle"
    /\ grid_cells = None
    /\ RouterIdle /\ PathIdle /\ CallIdle

NextGrid ==
    \/ \E c \in Calls : CallCached(c)
    \/ \E c \in Calls, u \in Noise : Classify(c, u)
    \/ ReturnNoStart
    \/ FilterAndReturn
    \/ Reset

SpecGrid == InitGrid /\ [][NextGrid]_vars

\* the clickable cells that at most k steps up, down, left or right through
\* clickable cells join to a cell of S
RECURSIVE joined4(_, _, _)
joined4(g, S, k) ==
    IF k = 0 THEN S
    ELSE joined4(g,
                 S \cup {n \in clickable(g) :
                            \E m \in S : SqDist(m, n) = 1},
                 k - 1)

SingleComponent(g) ==
    \A a \in clickable(g) : clickable(g) \subseteq joined4(g, {a}, Cardinality(DOMAIN g))

\* C12: after init_grid_cells has classified and filtered a grid, any two
\* clickable cells are joined by a chain of up/down/left/right steps through
\* clickable cells.
C12_SingleComponent ==
    gpc = "idle" /\ cached_grid # None =>
        /\ SingleComponent(cached_grid[1])
        /\ grid_cells # None => SingleComponent(grid_cells[1])

\* A grid of one cell per block has been filtered: a blue block's cell was
\* cleared and two or more cells are left clickable.
C12_Witness ==
    /\ gpc = "idle" /\ cached_grid # None
    /\ computed_for = CallArgs(width, height, GRID_SPACING)
    /\ \E n \in arctic_map_img[1] : ~cached_grid[1][n].is_clickable
    /\ Cardinality(clickable(cached_grid[1])) >= 2

\* C14: a call of init_grid_cells returns a grid computed for the arguments
\* of that call, never one cached for another size or grid spacing.
C14_CacheKeyedByConfiguration ==
    gpc = "idle" /\ grid_cells # None => computed_for = call

(***************************************************************************)
(* main.py: the pixels of the chart and the cells they fall into           *)
(***************************************************************************)
\* the charts of at most MaxWater blue blocks
Charts == {S \in SUBSET GridNodes : Cardinality(S) <= MaxWater}

\* is_blue_surface: the pixel is inside the chart and blue
is_blue_surface(x, y) ==
    IF arctic_map_img = None THEN FALSE
    ELSE IF x < 0 \/ y < 0 \/ x >= width \/ y >= height THEN FALSE
    ELSE blue_pixel(x, y)

\* the pixels the model clicks: the top left corner and the centre of a block
ClickOffsets ==
    {<<0, 0>>, <<0, GRID_SPACING \div 2>>, <<GRID_SPACING \div 2, GRID_SPACING \div 2>>}

ClickPoints ==
    {<<n[2] * GRID_SPACING + o[1], n[1] * GRID_SPACING + o[2]>> :
        n \in GridNodes, o \in ClickOffsets}

\* the number of rows and of columns of a grid
len_rows(g) == Cardinality({n[1] : n \in DOMAIN g})
len_cols(g) == Cardinality({n[2] : n \in DOMAIN g})

\* lines 670-673: the cell of a clicked point, kept inside the grid
node_of(p, g) ==
    <<Max(0, IF len_rows(g) - 1 <= p[2] \div GRID_SPACING
             THEN len_rows(g) - 1 ELSE p[2] \div GRID_SPACING),
      Max(0, IF len_cols(g) - 1 <= p[1] \div GRID_SPACING
             THEN len_cols(g) - 1 ELSE p[1] \div GRID_SPACING)>>

(***************************************************************************)
(* routing.py: line_of_sight and prune_path                                *)
(***************************************************************************)
\* int(math.sqrt(n)) for the whole numbers n that are met
IsqrtTable ==
    [n \in 0 .. 4 * ((GridRows + 1) * (GridRows + 1) + (GridCols + 1) * (GridCols + 1)) |->
        CHOOSE k \in 0 .. n : k * k <= n /\ (k + 1) * (k + 1) > n]

\* int(dist * 2) + 1
num_samples(a, b) == IsqrtTable[4 * SqDist(a, b)] + 1

\* round(p / q) for q > 0: to the nearest whole number, a tie to the even one
round(p, q) ==
    LET f == p \div q
        r == p - f * q
    IN  IF 2 * r < q THEN f
        ELSE IF 2 * r > q THEN f + 1
        ELSE IF f % 2 = 0 THEN f ELSE f + 1

\* (check_r, check_c) of sample i: r0 + (r1 - r0) * i / n, rounded
check_cell(a, b, n, i) ==
    <<round(a[1] * n + (b[1] - a[1]) * i, n), round(a[2] * n + (b[2] - a[2]) * i, n)>>

\* (variant: the is_clickable test of lines 105-106 is left out)
RECURSIVE samples_in_bounds(_, _, _, _, _)
samples_in_bounds(g, a, b, n, i) ==
    IF i > n THEN TRUE
    ELSE IF check_cell(a, b, n, i) \notin DOMAIN g THEN FALSE
    ELSE samples_in_bounds(g, a, b, n, i + 1)

\* the for loop of lines 94-106 from sample i on; a cell is inside the grid
\* (0 <= check_r < ROWS and 0 <= check_c < COLS) when it is in DOMAIN g
RECURSIVE samples_clear(_, _, _, _, _)
samples_clear(g, a, b, n, i) ==
    IF i > n THEN TRUE
    ELSE IF check_cell(a, b, n, i) \notin DOMAIN g THEN FALSE
    ELSE IF ~g[check_cell(a, b, n, i)].is_clickable THEN FALSE
    ELSE samples_clear(g, a, b, n, i + 1)

\* (variant: without the early return for dist == 0)
line_of_sight_sampled(g, a, b) == samples_clear(g, a, b, num_samples(a, b), 0)

line_of_sight(g, a, b) ==
    IF SqDist(a, b) = 0 THEN TRUE
    ELSE samples_clear(g, a, b, num_samples(a, b), 0)

\* (variant: the for loop stops at the nearest visible position, not the
\* furthest)
RECURSIVE nearest_visible(_, _, _, _)
nearest_visible(g, path, current_idx, check_idx) ==
    IF check_idx <= current_idx + 1 THEN current_idx + 1
    ELSE LET nearer == nearest_visible(g, path, current_idx, check_idx - 1)
         IN  IF nearer > current_idx + 1 THEN nearer
             ELSE IF line_of_sight(g, path[current_idx + 1], path[check_idx + 1])
                  THEN check_idx ELSE current_idx + 1

\* the for loop of lines 125-128, path positions counted from 0
RECURSIVE furthest_visible(_, _, _, _)
furthest_visible(g, path, current_idx, check_idx) ==
    IF check_idx <= current_idx + 1 THEN current_idx + 1
    ELSE IF line_of_sight(g, path[current_idx + 1], path[check_idx + 1]) THEN check_idx
    ELSE furthest_visible(g, path, current_idx, check_idx - 1)

\* the while loop of lines 122-131
RECURSIVE prune_from(_, _, _, _)
prune_from(g, path, pruned, current_idx) ==
    IF current_idx >= Len(path) - 1 THEN pruned
    ELSE LET f == furthest_visible(g, path, current_idx, Len(path) - 1)
         IN  prune_from(g, path, Append(pruned, path[f + 1]), f)

\* (variant: the last node is not appended when it is not visible)
prune_path_visible_only(g, path) ==
    IF Len(path) < 3 THEN path
    ELSE SelectSeq(path, LAMBDA n : line_of_sight(g, path[1], n))

prune_path(g, path) ==
    IF Len(path) < 3 THEN path
    ELSE prune_from(g, path, <<path[1]>>, 0)

\* the cells of the grid and the cells of the ring around it
RingNodes == (-1 .. GridRows) \X (-1 .. GridCols)

\* grids of uniform cells with no, one or two cells of land
LandGrids ==
    {[n \in GridNodes |-> [CellCost("uniform", n) EXCEPT !.is_clickable = (n \notin land)]] :
        land \in LandSets}

\* pareto_optimal_path is not running; grid is the grid given to the function
FunctionOfGrid ==
    /\ grid \in LandGrids
    /\ ROWS = GridRows
    /\ COLS = GridCols
    /\ start = None
    /\ goal = None
    /\ ship = None
    /\ alpha = DefaultAlpha
    /\ gamma = DefaultGamma
    /\ LABELS = <<>>
    /\ OPEN = <<>>
    /\ labels = <<>>
    /\ pc = "idle"
    /\ current_label = 0
    /\ current_node = None
    /\ raw_path_indices = <<>>

InitLineOfSight ==
    /\ FunctionOfGrid
    /\ fn = "line_of_sight"
    /\ args \in RingNodes \X RingNodes
    /\ result = None
    /\ LoopIdle
    /\ GridIdle /\ PathIdle

ApplyLineOfSight ==
    /\ fn = "line_of_sight"
    /\ result = None
    /\ result' = Some(line_of_sight(grid, args[1], args[2]))
    /\ UNCHANGED <<fn, args, loop, routerVars, gridVars, pathVars>>

NextLineOfSight == ApplyLineOfSight

SpecLineOfSight == InitLineOfSight /\ [][NextLineOfSight]_vars

\* the cells a and b of the segment and the cells sampled between them
SampledCells(a, b) ==
    {a, b} \cup {check_cell(a, b, num_samples(a, b), i) : i \in 0 .. num_samples(a, b)}

AllClear(g, S) == \A c \in S : c \in DOMAIN g /\ g[c].is_clickable

\* C16: line_of_sight(grid, n, n) returns True for every cell n of every
\* grid (and for a cell n outside the grid as well).
C16_LineOfSightToItself ==
    fn = "line_of_sight" /\ result # None /\ args[1] = args[2] => result[1]

\* line_of_sight has returned True for a cell of land as both ends
C16_Witness ==
    /\ fn = "line_of_sight" /\ result # None
    /\ args[1] = args[2]
    /\ args[1] \in DOMAIN grid
    /\ ~grid[args[1]].is_clickable
    /\ result[1]

\* C17 as stated: for every pair of cells a, b, line_of_sight returns True
\* exactly when both ends and every cell sampled along the segment are
\* inside the grid and clickable.
C17_TrueIffAllSamplesClear ==
    fn = "line_of_sight" /\ result # None =>
        (result[1] <=> AllClear(grid, SampledCells(args[1], args[2])))

\* C17, amended: the same for every pair of different cells a, b.
C17_TrueIffAllSamplesClearDistinct ==
    fn = "line_of_sight" /\ result # None /\ args[1] # args[2] =>
        (result[1] <=> AllClear(grid, SampledCells(args[1], args[2])))

\* line_of_sight has returned False for two clickable cells of the grid
\* because a cell sampled between them is land
C17_Witness ==
    /\ fn = "line_of_sight" /\ result # None
    /\ AllClear(grid, {args[1], args[2]})
    /\ \E c \in SampledCells(args[1], args[2]) : c \in DOMAIN grid /\ ~grid[c].is_clickable
    /\ ~result[1]

\* the nodes paths are made of: cells of the first row, the corners, and a
\* cell outside the grid
PathNodes ==
    {<<0, 0>>, <<0, 1>>, <<0, GridCols - 1>>, <<GridRows - 1, 0>>,
     <<GridRows - 1, GridCols - 1>>, <<-1, 0>>}

\* paths of 1 .. MaxPathLen nodes
MaxPathLen == 4

Paths == UNION {[1 .. k -> PathNodes] : k \in 1 .. MaxPathLen}

InitPrunePath ==
    /\ FunctionOfGrid
    /\ fn = "prune_path"
    /\ args \in Paths
    /\ result = None
    /\ LoopIdle
    /\ GridIdle /\ PathIdle

ApplyPrunePath ==
    /\ fn = "prune_path"
    /\ result = None
    /\ result' = Some(prune_path(grid, args))
    /\ UNCHANGED <<fn, args, loop, routerVars, gridVars, pathVars>>

NextPrunePath == ApplyPrunePath

SpecPrunePath == InitPrunePath /\ [][NextPrunePath]_vars

\* C15: for every grid and every non-empty path, prune_path returns a list
\* that is no longer than the path, begins with the path's first node and
\* ends with its last node.
C15_PruneKeepsEnds ==
    fn = "prune_path" /\ result # None =>
        /\ Len(result[1]) <= Len(args)
        /\ result[1][1] = args[1]
        /\ result[1][Len(result[1])] = args[Len(args)]

\* a path of MaxPathLen nodes was shortened, to three nodes or more
C15_Witness ==
    /\ fn = "prune_path" /\ result # None
    /\ Len(args) = MaxPathLen
    /\ Len(result[1]) < Len(args)
    /\ Len(result[1]) >= 3

(***************************************************************************)
(* main.py: get_spline_points and get_final_path_points.  A waypoint is a  *)
(* pixel <<x, y>> of whole numbers; a point of the spline, and of the list *)
(* returned, is <<x, y>> in units of 1/SplineDen pixel, which holds the    *)
(* Catmull-Rom values at t = t_int / num_segments exactly.                 *)
(***************************************************************************)
num_segments == 15

SplineDen == 2 * num_segments * num_segments * num_segments

\* the Catmull-Rom interpolation formula for one coordinate, times SplineDen
catmull_rom(p0, p1, p2, p3, t_int) ==
    (2 * p1) * (num_segments * num_segments * num_segments)
    + ((p2 - p0) * t_int) * (num_segments * num_segments)
    + ((2 * p0 - 5 * p1 + 4 * p2 - p3) * t_int * t_int) * num_segments
    + (3 * p1 - p0 - 3 * p2 + p3) * t_int * t_int * t_int

\* a pixel as a point of the spline's units
as_spline_point(p) == <<p[1] * SplineDen, p[2] * SplineDen>>

\* get_spline_points for a path of two points or more
get_spline_points(path) ==
    LET points == <<path[1]>> \o path \o <<path[Len(path)]>>
        point(k) ==
            LET i == ((k - 1) \div num_segments) + 1
                t_int == (k - 1) % num_segments
            IN  <<catmull_rom(points[i][1], points[i + 1][1], points[i + 2][1],
                              points[i + 3][1], t_int),
                  catmull_rom(points[i][2], points[i + 1][2], points[i + 2][2],
                              points[i + 3][2], t_int)>>
    IN  [k \in 1 .. num_segments * (Len(path) - 1) |-> point(k)]
            \o <<as_spline_point(path[Len(path)])>>

\* int(px) of a spline coordinate: towards zero
int(v) == IF v >= 0 THEN v \div SplineDen ELSE 0 - ((0 - v) \div SplineDen)

on_water(p) == is_blue_surface(int(p[1]), int(p[2]))

\* lines 297-298: the centre of a cell
cell_centre(n) ==
    <<n[2] * GRID_SPACING + GRID_SPACING \div 2, n[1] * GRID_SPACING + GRID_SPACING \div 2>>

\* dist > grid_spacing // 2 for the distance between two pixels
far_from(p, q) ==
    (p[1] - q[1]) * (p[1] - q[1]) + (p[2] - q[2]) * (p[2] - q[2])
        > (GRID_SPACING \div 2) * (GRID_SPACING \div 2)

\* lines 291-308
build_waypoint_coords(pruned, a, b) ==
    LET centres == [i \in 1 .. Len(pruned) |-> cell_centre(pruned[i])]
    IN  <<a>> \o SelectSeq(centres, LAMBDA c : far_from(c, a) /\ far_from(c, b)) \o <<b>>

\* (variant: the spline is returned without the checks)
is_path_valid_unchecked(spline) == TRUE

\* the loop of lines 316-320 from position i (counted from 0) on
RECURSIVE samples_on_water(_, _)
samples_on_water(spline, i) ==
    IF i >= Len(spline) THEN TRUE
    ELSE IF ~on_water(spline[i + 1]) THEN FALSE
    ELSE samples_on_water(spline, i + 3)

\* lines 315-323
is_path_valid(spline) ==
    IF ~samples_on_water(spline, 0) THEN FALSE
    ELSE on_water(spline[Len(spline)])

\* lines 325-329
final_path(coords) ==
    IF is_path_valid(get_spline_points(coords)) THEN get_spline_points(coords)
    ELSE [i \in 1 .. Len(coords) |-> as_spline_point(coords[i])]

\* get_final_path_points from line 288 on, for the path of Reconstruct
RefinePath ==
    /\ pc = "reconstructed"
    /\ point_a # None /\ point_b # None
    /\ pruned_indices' = prune_path(grid, raw_path_indices)
    /\ waypoint_coords' = build_waypoint_coords(pruned_indices', point_a[1], point_b[1])
    /\ final_points' = Some(final_path(waypoint_coords'))
    /\ pc' = "refined"
    /\ UNCHANGED <<config, LABELS, OPEN, labels, current_label, current_node,
                   raw_path_indices, point_a, point_b, gridVars, callVars>>

(***************************************************************************)
(* main.py, the main loop: the grid is set up on entering the map page,    *)
(* the two points are clicked, and the confirmed route is searched and     *)
(* turned into screen coordinates.                                         *)
(***************************************************************************)
\* line 583: init_grid_cells(width, height, GRID_SPACING) on entering page 2
EnterMapPage ==
    \E u \in Noise : Classify(CallArgs(width, height, GRID_SPACING), u)

\* lines 685-687: a left click on water sets point A
ClickA ==
    /\ gpc = "idle" /\ grid_cells # None /\ pc = "idle"
    /\ \E p \in ClickPoints : is_blue_surface(p[1], p[2]) /\ point_a' = Some(p)
    /\ UNCHANGED <<point_b, pruned_indices, waypoint_coords, final_points,
                   routerVars, gridVars, callVars>>

\* lines 688-692: a right click on water sets point B
ClickB ==
    /\ gpc = "idle" /\ grid_cells # None /\ pc = "idle"
    /\ \E p \in ClickPoints : is_blue_surface(p[1], p[2]) /\ point_b' = Some(p)
    /\ UNCHANGED <<point_a, pruned_indices, waypoint_coords, final_points,
                   routerVars, gridVars, callVars>>

\* lines 656-674: the Confirm button, up to the entry of the main loop of
\* pareto_optimal_path with the grid, the two cells and the chosen vessel
ConfirmRoute ==
    /\ gpc = "idle" /\ grid_cells # None /\ pc = "idle"
    /\ point_a # None /\ point_b # None
    /\ grid' = grid_cells[1]
    /\ ROWS' = len_rows(grid_cells[1])
    /\ COLS' = len_cols(grid_cells[1])
    /\ start' = node_of(point_a[1], grid_cells[1])
    /\ goal' = node_of(point_b[1], grid_cells[1])
    /\ ship' = Ship(Scale, Scale, Scale)
    /\ alpha' = DefaultAlpha
    /\ gamma' = DefaultGamma
    /\ LABELS' = InitialState'.LABELS
    /\ OPEN' = InitialState'.OPEN
    /\ labels' = InitialState'.labels
    /\ pc' = "loop"
    /\ current_label' = 1
    /\ current_node' = start'
    /\ raw_path_indices' = <<>>
    /\ UNCHANGED <<gridVars, pathVars, callVars>>

InitApp ==
    /\ arctic_map_img \in {Some(S) : S \in Charts}
    /\ cached_grid = None
    /\ computed_for = None
    /\ call = None
    /\ cells = None
    /\ gpc = "idle"
    /\ grid_cells = None
    /\ RouterIdle /\ PathIdle /\ CallIdle

NextApp ==
    \/ EnterMapPage
    \/ ReturnNoStart
    \/ FilterAndReturn
    \/ ClickA
    \/ ClickB
    \/ ConfirmRoute
    \/ HeapPopDominated
    \/ HeapPopGoal
    \/ HeapPopExpand
    \/ Return
    \/ Reconstruct
    \/ RefinePath

SpecApp == InitApp /\ [][NextApp]_vars

\* the attributes of a cell apart from is_clickable
attributes(cell) == <<cell.risk, cell.time, cell.fuel, cell.weather>>

\* the step from the classified grid to the filtered one
FilterOnlyClears ==
    gpc = "classified" =>
        \A n \in DOMAIN cells[1] :
            /\ attributes(cells'[1][n]) = attributes(cells[1][n])
            /\ cells'[1][n].is_clickable => cells[1][n].is_clickable

\* a step of pareto_optimal_path
RouterLeavesGrid ==
    pc = "loop" => grid' = grid /\ grid_cells' = grid_cells /\ cached_grid' = cached_grid

\* C13: the connectivity filter only clears is_clickable, it sets it for no
\* cell and leaves risk, time, fuel and weather of every cell as they are;
\* the router changes no cell.
C13_FilterOnlyClears == [][FilterOnlyClears /\ RouterLeavesGrid]_vars

\* the filter has cleared the cell of a blue block, and the router has run
\* on the filtered grid and made labels
C13_Witness ==
    /\ pc = "done"
    /\ \E n \in arctic_map_img[1] : ~grid[n].is_clickable
    /\ Len(labels) >= 2

(***************************************************************************)
(* The refinement of a route                                               *)
(***************************************************************************)
\* the positions of the spline that lines 316-323 look at
CheckedSamples(spline) ==
    {i \in 1 .. Len(spline) : (i - 1) % 3 = 0} \cup {Len(spline)}

SplineOnWater(spline) == \A i \in CheckedSamples(spline) : on_water(spline[i])

\* a list of pixels is the first point, centres of cells of the pruned path
\* in their order, and the second point
IsPolyline(coords, pruned, a, b) ==
    /\ Len(coords) >= 2
    /\ coords[1] = a
    /\ coords[Len(coords)] = b
    /\ \E kept \in SUBSET (1 .. Len(pruned)) :
           /\ Cardinality(kept) = Len(coords) - 2
           /\ \A i \in kept :
                  coords[1 + Cardinality({j \in kept : j <= i})] = cell_centre(pruned[i])

\* C18: for a label of the router get_final_path_points returns a list: the
\* spline of the waypoints when every sample that is checked (each third one
\* and the last point) is on water, and otherwise the polyline of the
\* waypoints themselves (first point, centres kept, second point).
C18_SplineOnlyWhenOnWater ==
    pc = "refined" =>
        /\ final_points # None
        /\ IsPolyline(waypoint_coords, pruned_indices, point_a[1], point_b[1])
        /\ final_points[1] =
               IF SplineOnWater(get_spline_points(waypoint_coords))
               THEN get_spline_points(waypoint_coords)
               ELSE [i \in 1 .. Len(waypoint_coords) |-> as_spline_point(waypoint_coords[i])]

\* a spline that leaves the water has been replaced by the polyline, which
\* holds the centre of a cell
C18_Witness ==
    /\ pc = "refined"
    /\ ~SplineOnWater(get_spline_points(waypoint_coords))
    /\ Len(waypoint_coords) >= 3
    /\ Len(final_points[1]) = Len(waypoint_coords)

\* the first and the last waypoint give way to the two points, the others are
\* mapped to their centres
anchored_coords(pruned, a, b) ==
    [i \in 1 .. Len(pruned) |->
        IF i = 1 THEN a ELSE IF i = Len(pruned) THEN b ELSE cell_centre(pruned[i])]

\* C19: the list of waypoint coordinates has one entry for each waypoint of
\* the pruned path: point_a for the first, point_b for the last, and the
\* centre of the cell for every other one, in order.
C19_OneEntryPerWaypoint ==
    pc = "refined" =>
        waypoint_coords = anchored_coords(pruned_indices, point_a[1], point_b[1])

(***************************************************************************)
(* pareto_optimal_path on the 3x3 grid of open water with risk, time and   *)
(* fuel 1 in every cell, from (0,0) to (2,2), for the vessel with speed,   *)
(* fuel rate and durability 1.  The weather of a cell is 0 or 1 (1.0 is    *)
(* the default of GridCell).                                               *)
(***************************************************************************)
ScenarioNodes == (0 .. 2) \X (0 .. 2)

ScenarioGrids ==
    {[n \in ScenarioNodes |-> GridCell(1, 1, 1, weather[n], TRUE)] :
        weather \in [ScenarioNodes -> {0, 1}]}

InitScenario ==
    /\ grid \in ScenarioGrids
    /\ ROWS = 3
    /\ COLS = 3
    /\ start = <<0, 0>>
    /\ goal = <<2, 2>>
    /\ ship = Ship(Scale, Scale, Scale)
    /\ Entry
    /\ GridIdle /\ PathIdle /\ CallIdle

NextScenario ==
    \/ HeapPopDominated
    \/ HeapPopGoal
    \/ HeapPopExpand
    \/ Return
    \/ Reconstruct

SpecScenario == InitScenario /\ [][NextScenario]_vars

\* C20: on the 3x3 scenario the frontier returned has at least one label and
\* holds a label whose time is 4.
C20_ScenarioTimeFour ==
    pc = "done" =>
        /\ LABELS[goal] # <<>>
        /\ \E i \in 1 .. Len(LABELS[goal]) : labels[LABELS[goal][i]].time = 4 * Scale

(***************************************************************************)
(* pareto_optimal_path in floating point.  The costs of a label are Python *)
(* floats, so that every sum of lines 224-226 and 258 is rounded to the    *)
(* nearest float, ties to even.  A float of the model has MantissaBits     *)
(* significant bits (a Python float has 53) and counts thousandths.        *)
(***************************************************************************)
\* the distance between neighbouring floats around v >= 0
RECURSIVE ulp(_)
ulp(v) == IF v < 2 ^ MantissaBits THEN 1 ELSE 2 * ulp(v \div 2)

\* v >= 0 rounded to the nearest float, ties to even
nearest_float(v) ==
    LET u == ulp(v)
        q == v \div u
        r == v % u
    IN  IF 2 * r < u THEN q * u
        ELSE IF 2 * r > u THEN (q + 1) * u
        ELSE IF q % 2 = 0 THEN q * u ELSE (q + 1) * u

float(v) == IF v >= 0 THEN nearest_float(v) ELSE 0 - nearest_float(0 - v)

\* lines 211-232, every product and every sum rounded
new_label_float(st, l, node, nb) ==
    LET cell == grid[nb]
        d == distance(node, nb)
        cur == st.labels[l]
    IN  Label(float(cur.risk + float(effective_risk(cell))),
              float(cur.time + float(time_cost(cell, d))),
              float(cur.fuel + float(fuel_cost(cell, d))),
              <<node, l>>)

\* lines 249-260, the priority of line 258 rounded
admit_float(st, nb, nl) ==
    LET id == Len(st.labels) + 1
        ls == Append(st.labels, nl)
    IN  [labels |-> ls,
         LABELS |-> [st.LABELS EXCEPT ![nb] = Append(kept_labels(st, nb, nl), id)],
         OPEN   |-> heappush(ls, st.OPEN,
                             [priority |-> <<nl.risk, float(nl.time + float(h_time(nb))), nl.fuel>>,
                              label |-> id, node |-> nb])]

\* one pass of the for loop body, lines 204-260
expand_float(st, l, node, nb) ==
    IF ~grid[nb].is_clickable THEN st
    ELSE LET nl == new_label_float(st, l, node, nb)
         IN  IF is_dominated(st, nb, nl) THEN st ELSE admit_float(st, nb, nl)

\* the for loop of line 203 over the first k neighbours of node
RECURSIVE expand_first_float(_, _, _, _)
expand_first_float(st, l, node, k) ==
    IF k = 0 THEN st
    ELSE expand_float(expand_first_float(st, l, node, k - 1), l, node, neighbors(node)[k])

\* one pass of the while loop, lines 191-260, after the pop p
iterate_float(st, p) ==
    LET st1 == [st EXCEPT !.OPEN = p.heap]
    IN  IF goal_pruned(st1, p.item.label) \/ p.item.node = goal THEN st1
        ELSE expand_first_float(st1, p.item.label, p.item.node, Len(neighbors(p.item.node)))

\* the while loop of line 190, run until OPEN is empty
RECURSIVE while_open_float(_)
while_open_float(st) ==
    IF st.OPEN = <<>> THEN st
    ELSE while_open_float(iterate_float(st, heappop(st.labels, st.OPEN)))

\* Grids of open water whose cells all carry the same risk, time, fuel and
\* weather, one column wider than the grids of the other specifications (a
\* route of one diagonal and two straight steps needs four columns).
UniformCols == GridCols + 1

UniformNodes == (0 .. GridRows - 1) \X (0 .. UniformCols - 1)

UniformCells ==
    {GridCell(1, 1, 1, 1, TRUE), GridCell(0, 1, 1, 1, TRUE), GridCell(1, 1, 5, 0, TRUE),
     GridCell(2, 5, 5, 1, TRUE), GridCell(1, 2, 3, 2, TRUE)}

UniformGrids == {[n \in UniformNodes |-> cell] : cell \in UniformCells}

\* a regular vessel, one that burns less, and a faster one that burns less
UniformShips ==
    {Ship(Scale, Scale, Scale), Ship(Scale, 700, Scale), Ship(1500, 700, 2 * Scale)}

InitUniform ==
    /\ grid \in UniformGrids
    /\ ROWS = GridRows
    /\ COLS = UniformCols
    /\ start \in StartNodes
    /\ goal \in UniformNodes
    /\ ship \in UniformShips
    /\ alpha = 0
    /\ gamma = 0
    /\ LABELS = InitialState.LABELS
    /\ OPEN = InitialState.OPEN
    /\ labels = InitialState.labels
    /\ pc = "loop"
    /\ current_label = 1
    /\ current_node = start
    /\ raw_path_indices = <<>>
    /\ GridIdle /\ PathIdle /\ CallIdle

\* lines 190-262 as one step
SearchFloat ==
    /\ pc = "loop"
    /\ LABELS' = while_open_float(State).LABELS
    /\ OPEN' = while_open_float(State).OPEN
    /\ labels' = while_open_float(State).labels
    /\ pc' = "done"
    /\ UNCHANGED <<config, current_label, current_node, raw_path_indices,
                   gridVars, pathVars, callVars>>

NextUniform == SearchFloat

SpecUniform == InitUniform /\ [][NextUniform]_vars

\* min(pareto_labels, key = ...): the first of the labels whose key is least
min_by(ids, key(_)) ==
    ids[CHOOSE i \in 1 .. Len(ids) :
            /\ \A j \in 1 .. Len(ids) : key(labels[ids[i]]) <= key(labels[ids[j]])
            /\ \A j \in 1 .. i - 1 : key(labels[ids[j]]) > key(labels[ids[i]])]

risk_label == min_by(LABELS[goal], LAMBDA l : l.risk)
time_label == min_by(LABELS[goal], LAMBDA l : l.time)
fuel_label == min_by(LABELS[goal], LAMBDA l : l.fuel)

\* C21: on a uniform grid of open water with alpha = gamma = 0, the labels
\* of least risk, least time and least fuel the caller selects from the
\* frontier returned are one and the same label, which is no worse than any
\* label returned in any of the three objectives.
C21_OneDominantLabel ==
    pc = "done" /\ LABELS[goal] # <<>> =>
        /\ risk_label = time_label
        /\ time_label = fuel_label
        /\ \A i \in 1 .. Len(LABELS[goal]) :
               /\ labels[time_label].risk <= labels[LABELS[goal][i]].risk
               /\ labels[time_label].time <= labels[LABELS[goal][i]].time
               /\ labels[time_label].fuel <= labels[LABELS[goal][i]].fuel

(***************************************************************************)
(* Routes that are better than every other one                             *)
(***************************************************************************)
\* the increments of lines 215-221 for a step from m into n
step_cost(m, n) ==
    <<effective_risk(grid[n]), time_cost(grid[n], distance(m, n)),
      fuel_cost(grid[n], distance(m, n))>>

\* the walks of prev, each <<node, cost vector, several>>, extended by one
\* step into a navigable neighbour, as <<node, cost vector, several, from>>
arrivals(prev) ==
    {<<x[2],
       <<x[1][2][1] + step_cost(x[1][1], x[2])[1],
         x[1][2][2] + step_cost(x[1][1], x[2])[2],
         x[1][2][3] + step_cost(x[1][1], x[2])[3]>>,
       x[1][3], x[1][1]>> :
        x \in {y \in prev \X Nodes :
                  SqDist(y[1][1], y[2]) \in {1, 2} /\ grid[y[2]].is_clickable}}

\* of the arrivals at n those that are least in objective i
least_among(here, i) == {a \in here : \A b \in here : a[2][i] <= b[2][i]}

least_at(arr, i, n) == least_among({a \in arr : a[1] = n}, i)

\* the cost vector of one of the walks that are least, and whether several
\* walks are
summary(n, least) ==
    <<n, (CHOOSE a \in least : TRUE)[2],
      Cardinality(least) > 1 \/ \E a \in least : a[3]>>

\* for every node reached, the walks that are least in objective i
least_of(arr, i) == {summary(n, least_at(arr, i, n)) : n \in {a[1] : a \in arr}}

\* the levels found so far and the next one
next_level(levels, i) == Append(levels, least_of(arrivals(levels[Len(levels)]), i))

\* Among the walks of exactly 0, 1, ..., k steps from the start to each
\* node (steps between neighbouring cells, every cell entered navigable),
\* those that are least in objective i, as <<node, cost vector, several>>.
RECURSIVE least_walks(_, _)
least_walks(i, k) ==
    IF k = 0 THEN <<{<<start, <<0, 0, 0>>, FALSE>>}>>
    ELSE next_level(least_walks(i, k - 1), i)

\* the walks of the levels that end at the goal, as <<level, cost vector,
\* several>>
goal_walks(levels) ==
    UNION {{<<k, w[2], w[3]>> : w \in {x \in levels[k] : x[1] = goal}} :
              k \in 1 .. Len(levels)}

\* the walks to the goal of at most as many steps as the grid has cells that
\* are least in objective i
LeastGoalWalks(i) == least_among(goal_walks(least_walks(i, Cardinality(Nodes))), i)

\* One walk to the goal is better in risk, in time and in fuel than every
\* other one: for each objective a single walk is least, and it is the same
\* walk for the three.
StrictlyBestPath ==
    /\ \A i \in 1 .. 3 :
           /\ Cardinality(LeastGoalWalks(i)) = 1
           /\ \A w \in LeastGoalWalks(i) : ~w[3]
    /\ LeastGoalWalks(1) = LeastGoalWalks(2)
    /\ LeastGoalWalks(2) = LeastGoalWalks(3)

\* pareto_optimal_path for the regular vessel, on the grids, starts and
\* goals of Init
InitRegular ==
    /\ grid \in Grids
    /\ ROWS = GridRows
    /\ COLS = GridCols
    /\ start \in StartNodes
    /\ goal \in GridNodes
    /\ ship = Ship(Scale, Scale, Scale)
    /\ Entry
    /\ GridIdle /\ PathIdle /\ CallIdle

SpecRegular == InitRegular /\ [][NextScenario]_vars

\* C22: when one path from the start to the goal is strictly better in
\* risk, time and fuel than every other one, the frontier returned for the
\* goal holds exactly one label.
C22_OneLabelForBestPath ==
    pc = "done" /\ StrictlyBestPath => Len(LABELS[goal]) = 1

\* the function has returned one label for a goal that is not next to the
\* start and that a second route reaches through another neighbour
C22_Witness ==
    /\ pc = "done"
    /\ StrictlyBestPath
    /\ SqDist(start, goal) > 2
    /\ Len(LABELS[goal]) = 1
    /\ \E m \in Nodes \ {goal} :
           /\ SqDist(m, goal) \in {1, 2}
           /\ LABELS[m] # <<>>
           /\ m # labels[LABELS[goal][1]].predecessor[1]

(***************************************************************************)
(* analyze_cell_from_image as a function of its arguments and the chart    *)
(***************************************************************************)
\* cells of the grid, and cells that lie partly or wholly outside the chart
CellOrigins ==
    {<<c * GRID_SPACING, r * GRID_SPACING>> : r \in -1 .. GridRows, c \in -1 .. GridCols}

\* no read raises, one does, all do
UnreadableSets == {{}, {<<0, 0>>}, SamplePositions}

InitAnalyze ==
    /\ arctic_map_img \in {None} \cup {Some(S) : S \in Charts}
    /\ cached_grid = None
    /\ computed_for = None
    /\ call = None
    /\ cells = None
    /\ gpc = "idle"
    /\ grid_cells = None
    /\ fn = "analyze_cell_from_image"
    /\ args \in {Some([cell_x |-> o[1], cell_y |-> o[2], grid_spacing |-> s, u |-> u,
                       unreadable |-> x]) :
                    o \in CellOrigins, s \in {GRID_SPACING, 2 * GRID_SPACING},
                    u \in Noise, x \in UnreadableSets}
    /\ result = None
    /\ LoopIdle
    /\ RouterIdle /\ PathIdle

ApplyAnalyze ==
    /\ fn = "analyze_cell_from_image"
    /\ result = None
    /\ result' = Some(analyze_cell_from_image(args[1].cell_x, args[1].cell_y,
                                              args[1].grid_spacing, args[1].u,
                                              args[1].unreadable))
    /\ UNCHANGED <<fn, args, loop, routerVars, gridVars, pathVars>>

NextAnalyze == ApplyAnalyze

SpecAnalyze == InitAnalyze /\ [][NextAnalyze]_vars

\* the sample positions of the call whose pixel is inside the chart and is read
InBoundsSamples ==
    {ij \in SamplePositions \ args[1].unreadable :
        /\ 0 <= args[1].cell_x + (ij[1] + 1) * (args[1].grid_spacing \div 6)
        /\ args[1].cell_x + (ij[1] + 1) * (args[1].grid_spacing \div 6) < width
        /\ 0 <= args[1].cell_y + (ij[2] + 1) * (args[1].grid_spacing \div 6)
        /\ args[1].cell_y + (ij[2] + 1) * (args[1].grid_spacing \div 6) < height}

WaterSamples ==
    {ij \in InBoundsSamples :
        blue_pixel(args[1].cell_x + (ij[1] + 1) * (args[1].grid_spacing \div 6),
                   args[1].cell_y + (ij[2] + 1) * (args[1].grid_spacing \div 6))}

\* C23: analyze_cell_from_image returns a cell for every call: the cell is
\* navigable exactly when some sample inside the chart is water, and without
\* a chart or without a sample inside the chart it is a cell of fixed costs
\* that is not navigable.
C23_NavigableIffWaterSample ==
    fn = "analyze_cell_from_image" /\ result # None =>
        /\ result[1].is_clickable <=> (arctic_map_img # None /\ WaterSamples # {})
        /\ arctic_map_img = None => result[1] = GridCell(1, 1, 1, 1, FALSE)
        /\ arctic_map_img # None /\ InBoundsSamples = {}
               => result[1] = GridCell(5, 3, 2, 1, FALSE)

\* a cell that reaches over the edge of the chart is navigable because of a
\* few water samples among samples on land
C23_Witness ==
    /\ fn = "analyze_cell_from_image" /\ result # None
    /\ arctic_map_img # None
    /\ result[1].is_clickable
    /\ Cardinality(InBoundsSamples) < Cardinality(SamplePositions)
    /\ 2 * Cardinality(WaterSamples) < Cardinality(InBoundsSamples)

(***************************************************************************)
(* routing.py: prune_path followed statement by statement.  loop is None   *)
(* until lines 119-120 have run; current_idx counts path positions from 0. *)
(***************************************************************************)

\* two opposite corners of the grid and the corner between them
LoopNodes == {<<0, 0>>, <<0, GridCols - 1>>, <<GridRows - 1, GridCols - 1>>}

LoopPaths == UNION {[1 .. k -> LoopNodes] : k \in 1 .. MaxPathLen}

InitPruneLoop ==
    /\ FunctionOfGrid
    /\ fn = "prune_path"
    /\ args \in LoopPaths
    /\ result = None
    /\ LoopIdle
    /\ GridIdle /\ PathIdle

\* lines 116-117: a path of fewer than three nodes is returned as it is
PruneShort ==
    /\ fn = "prune_path" /\ result = None /\ loop = None
    /\ Len(args) < 3
    /\ result' = Some(args)
    /\ UNCHANGED <<fn, args, loop, routerVars, gridVars, pathVars>>

\* lines 119-120
PruneStart ==
    /\ fn = "prune_path" /\ result = None /\ loop = None
    /\ Len(args) >= 3
    /\ loop' = Some([pruned |-> <<args[1]>>, current_idx |-> 0])
    /\ UNCHANGED <<fn, args, result, routerVars, gridVars, pathVars>>

\* lines 122-131: one iteration of the while loop
PruneStep ==
    /\ fn = "prune_path" /\ result = None /\ loop # None
    /\ loop[1].current_idx < Len(args) - 1
    /\ LET f == furthest_visible(grid, args, loop[1].current_idx, Len(args) - 1)
       IN  loop' = Some([pruned |-> Append(loop[1].pruned, args[f + 1]),
                         current_idx |-> f])
    /\ UNCHANGED <<fn, args, result, routerVars, gridVars, pathVars>>

\* line 133, when the condition of line 122 is false
PruneReturn ==
    /\ fn = "prune_path" /\ result = None /\ loop # None
    /\ ~(loop[1].current_idx < Len(args) - 1)
    /\ result' = Some(loop[1].pruned)
    /\ UNCHANGED <<fn, args, loop, routerVars, gridVars, pathVars>>

NextPruneLoop == PruneShort \/ PruneStart \/ PruneStep \/ PruneReturn

\* the call runs on: a statement that can run does run
SpecPruneLoop == InitPruneLoop /\ [][NextPruneLoop]_vars /\ WF_vars(NextPruneLoop)

\* the positions after position i + 1 of the path that are visible from
\* position i, positions counted from 0
visible_after(i) ==
    {j \in (i + 2) .. (Len(args) - 1) : line_of_sight(grid, args[i + 1], args[j + 1])}

\* the largest of them, or i + 1 when there is none
jump_target(i) ==
    IF visible_after(i) = {} THEN i + 1
    ELSE CHOOSE j \in visible_after(i) : \A k \in visible_after(i) : k <= j

\* an iteration moves current_idx to the jump target of its old value, which
\* is a later position
IterationAdvances ==
    PruneStep => /\ loop'[1].current_idx = jump_target(loop[1].current_idx)
                 /\ loop'[1].current_idx > loop[1].current_idx

\* on return from the loop current_idx is the last position of the path
EndsAtLast ==
    loop # None /\ result # None => loop[1].current_idx = Len(args) - 1

\* C24: on a path of three nodes or more every iteration of the while loop
\* moves current_idx from i to the largest j > i + 1 with path[j] in line of
\* sight of path[i], or to i + 1 when there is none; so current_idx grows in
\* every iteration, and the loop ends, with current_idx the last position of
\* the path.
C24_LoopAdvancesToLast ==
    /\ [][IterationAdvances]_vars
    /\ []((loop # None => loop[1].current_idx <= Len(args) - 1) /\ EndsAtLast)
    /\ <>(result # None)

\* a path of MaxPathLen nodes, no two of its first three the same, went
\* through the loop in two iterations, one of which passed over a node
C24_Witness ==
    /\ loop # None /\ result # None
    /\ Len(args) = MaxPathLen
    /\ Cardinality({args[1], args[2], args[3]}) = 3
    /\ Len(loop[1].pruned) = 3
    /\ loop[1].current_idx = Len(args) - 1

\* the cell of S that comes first when the grid is read row by row
first_row_major(S) ==
    CHOOSE n \in S : \A m \in S : n[1] * (GridCols + 1) + n[2] <= m[1] * (GridCols + 1) + m[2]

\* the step from a classified grid to the grid returned: with no navigable
\* cell the grid is returned as it is, and else its navigable cells are the
\* cells joined to the first navigable cell by steps up, down, left or
\* right through cells navigable after classification
FilterKeepsAnchorRegion ==
    /\ ReturnNoStart =>
           /\ clickable(cells[1]) = {}
           /\ cached_grid' = cells /\ grid_cells' = cells
    /\ FilterAndReturn =>
           LET before == cells[1]
               after == grid_cells'[1]
               region == joined4(before, {first_row_major(clickable(before))},
                                 Cardinality(DOMAIN before))
           IN  /\ clickable(before) # {}
               /\ DOMAIN after = DOMAIN before
               /\ clickable(after) = region
               /\ cached_grid' = grid_cells'

\* on a classified grid with a navigable cell the while loop of lines
\* 215-223 comes to an end, with a set of cells of the grid
SearchEnds ==
    LET anchor == first_row_major(clickable(cells[1]))
    IN  /\ find_start_node(cells[1]) = Some(anchor)
        /\ bfs(cells[1], <<anchor>>, {anchor}) \subseteq DOMAIN cells[1]

\* C25: init_grid_cells anchors its search at the first navigable cell in
\* row-major order; after the filter the navigable cells are exactly the
\* cells reachable from the anchor by 4-connected steps through cells that
\* were navigable after classification (no reachable cell is demoted, every
\* unreachable one is), the search ends, and a grid with no navigable cell
\* is returned unchanged.
C25_AnchorRegionKept ==
    /\ [][FilterKeepsAnchorRegion]_vars
    /\ [](gpc = "classified" /\ clickable(cells[1]) # {} => SearchEnds)

\* a grid of one cell per block was filtered: the first blue block's cell is
\* navigable, and a blue block that touches a navigable cell only at a
\* corner was demoted
C25_Witness ==
    /\ gpc = "idle" /\ cached_grid # None
    /\ computed_for = CallArgs(width, height, GRID_SPACING)
    /\ arctic_map_img[1] # {}
    /\ cached_grid[1][first_row_major(arctic_map_img[1])].is_clickable
    /\ \E n \in arctic_map_img[1], m \in clickable(cached_grid[1]) :
           /\ ~cached_grid[1][n].is_clickable
           /\ SqDist(m, n) = 2

\* Runs on the grids whose cells differ in every attribute, for a regular
\* vessel and for a faster one that burns less and is more durable
RouteShips == {Ship(Scale, Scale, Scale), Ship(1500, 700, 2 * Scale)}

InitRoutes ==
    /\ grid \in {g \in Grids : \E n \in GridNodes : g[n].weather = 2}
    /\ ROWS = GridRows
    /\ COLS = GridCols
    /\ start \in StartNodes
    /\ goal \in GridNodes
    /\ ship \in RouteShips
    /\ Entry
    /\ GridIdle /\ PathIdle /\ CallIdle

SpecRoutes == InitRoutes /\ [][NextScenario]_vars

\* the cells a label at node n stands for in state st, from the first to n
route_of(st, n, l) == Append(reconstruct_path(st.labels, l), n)

\* the increments of lines 211-228 for entering route[k] from route[k - 1],
\* summed over the first k cells of the route; the first cell costs nothing
RECURSIVE route_cost(_, _)
route_cost(route, k) ==
    IF k <= 1 THEN <<0, 0, 0>>
    ELSE LET sofar == route_cost(route, k - 1)
             cell == grid[route[k]]
             d == distance(route[k - 1], route[k])
         IN  <<sofar[1] + effective_risk(cell),
               sofar[2] + time_cost(cell, d),
               sofar[3] + fuel_cost(cell, d)>>

\* following predecessors from label l leads, through labels made earlier,
\* to the start label
RECURSIVE chain_to_start(_, _)
chain_to_start(st, l) ==
    IF st.labels[l].predecessor = NoPred THEN st.labels[l] = start_label
    ELSE /\ st.labels[l].predecessor[2] \in 1 .. (l - 1)
         /\ chain_to_start(st, st.labels[l].predecessor[2])

encodes_route(st, n, l) ==
    LET route == route_of(st, n, l)
    IN  /\ chain_to_start(st, l)
        /\ route[1] = start
        /\ \A k \in 2 .. Len(route) :
              /\ InBounds(route[k])
              /\ SqDist(route[k - 1], route[k]) \in {1, 2}
              /\ grid[route[k]].is_clickable
        /\ cost(st.labels[l]) = route_cost(route, Len(route))

\* C26: while the router runs, every label in every frontier encodes a real
\* route: its predecessors lead in finitely many steps to the start label
\* (no predecessor, cost (0, 0, 0)), consecutive cells are in-bounds
\* 8-neighbours, every cell entered after the start is navigable, and its
\* cost is the sum of the increments of the cells entered, the start cell
\* not being charged.
C26_LabelsEncodeRoutes ==
    \A st \in ReachedStates : \A n \in DOMAIN st.LABELS :
        \A i \in 1 .. Len(st.LABELS[n]) : encodes_route(st, n, st.LABELS[n][i])

\* the loop is running and a frontier holds a label for a route of four
\* cells or more with a diagonal step, over cells that do not all cost the
\* same
C26_Witness ==
    /\ pc = "loop" /\ OPEN # <<>>
    /\ \E n \in DOMAIN LABELS : \E i \in 1 .. Len(LABELS[n]) :
          LET route == route_of(State, n, LABELS[n][i])
          IN  /\ Len(route) >= 4
              /\ \E k \in 2 .. Len(route) : SqDist(route[k - 1], route[k]) = 2
              /\ grid[route[2]] # grid[route[3]]

(***************************************************************************)
(* pareto_optimal_path in floating point on grids of open water one row    *)
(* and two columns larger than the grids of the other specifications: a    *)
(* route from one corner to the opposite one has two diagonal and two      *)
(* straight steps, which can be taken in six orders.                       *)
(***************************************************************************)
WideRows == GridRows + 1
WideCols == GridCols + 2

WideNodes == (0 .. WideRows - 1) \X (0 .. WideCols - 1)

WideGrids == {[n \in WideNodes |-> cell] : cell \in UniformCells}

InitWide ==
    /\ grid \in WideGrids
    /\ ROWS = WideRows
    /\ COLS = WideCols
    /\ start \in StartNodes
    /\ goal \in WideNodes
    /\ ship \in UniformShips
    /\ alpha = 0
    /\ gamma = 0
    /\ LABELS = InitialState.LABELS
    /\ OPEN = InitialState.OPEN
    /\ labels = InitialState.labels
    /\ pc = "loop"
    /\ current_label = 1
    /\ current_node = start
    /\ raw_path_indices = <<>>
    /\ GridIdle /\ PathIdle /\ CallIdle

SpecWide == InitWide /\ [][NextUniform]_vars

\* label l is in the frontier of node n
in_frontier(n, l) == \E i \in 1 .. Len(LABELS[n]) : LABELS[n][i] = l

\* every label on the predecessor chain of label l is in the frontier of
\* its own node
RECURSIVE chain_in_frontiers(_)
chain_in_frontiers(l) ==
    LET pred == labels[l].predecessor
    IN  pred = NoPred \/ (in_frontier(pred[1], pred[2]) /\ chain_in_frontiers(pred[2]))

\* C27: when pareto_optimal_path returns, every label on the predecessor
\* chain of every returned goal label is still in the frontier of its own
\* node: no returned route passes through an evicted label.
C27_RoutesThroughFrontierLabels ==
    pc = "done" =>
        \A i \in 1 .. Len(LABELS[goal]) : chain_in_frontiers(LABELS[goal][i])

\* C28: on a grid returned by init_grid_cells, whose navigable cells are
\* one 4-connected region, the router with its 8 neighbours returns for
\* every navigable start and goal a frontier that is not empty, and every
\* cell after the start on every returned route is a navigable cell of
\* that region (the cells joined to the start by 4-connected steps).
C28_RouteWithinRegion ==
    pc = "done" /\ grid[start].is_clickable /\ grid[goal].is_clickable =>
        /\ LABELS[goal] # <<>>
        /\ \A i \in 1 .. Len(LABELS[goal]) :
              LET route == route_of(State, goal, LABELS[goal][i])
              IN  \A k \in 2 .. Len(route) :
                     route[k] \in joined4(grid, {start}, Cardinality(DOMAIN grid))

\* a run between two different navigable cells has returned a route with a
\* diagonal step
C28_Witness ==
    /\ pc = "done" /\ start # goal
    /\ grid[start].is_clickable /\ grid[goal].is_clickable
    /\ \E i \in 1 .. Len(LABELS[goal]) :
          LET route == route_of(State, goal, LABELS[goal][i])
          IN  \E k \in 2 .. Len(route) : SqDist(route[k - 1], route[k]) = 2

====
